---- MODULE Spec2Model ----
(***************************************************************************)
(* State-machine model of src/dictate.py (SoupaWhisper): the Dictation     *)
(* object, its model-load thread, the evdev polling loop of run(), the     *)
(* arecord capture subprocess and the shutdown path.                       *)
(*                                                                         *)
(* Python values: None is the string "None" for string-valued fields and   *)
(* 0 for handles (pids and temp-file ids start at 1).  Texts are sequences *)
(* of characters, so that strip, join and truthiness are computed.         *)
(* A session runs from the hotkey press that starts a recording to the end *)
(* of the stop_recording call that handles the release.                    *)
(***************************************************************************)
EXTENDS Naturals, Sequences, FiniteSets, TLC

\* ------------------------------------------------------------ bounds
\* recordings that may be started in one run of the process
MaxSessions == 2
\* hotkey events buffered in the kernel, over all devices
MaxQueue == 2
\* segments one transcription yields
MaxSegments == 1
\* ids the notification daemon hands out
MaxNotifId == 1
\* parts ("+"-separated key names) of a paste_keys setting
MaxPasteKeys == 2

\* ------------------------------------------------------------ values
None == "None"
NoProc == 0
NoFile == 0
\* no device is being read (before the first read, between two reads)
NoDevice == 0
\* the local "text" of stop_recording before line 558 assigns it
NoText == <<None>>

\* the keyboards find_keyboard_devices() returned, in fd order
Devices == <<"kbd0", "kbd1">>
DeviceIds == 1..Len(Devices)

\* the events that pass the filter of lines 636-640: EV_KEY events of
\* HOTKEY_CODE with value 1 or 0 (any other event changes nothing)
EventKinds == {"press", "release"}

\* str(e) of the exception WhisperModel(...) may raise; str(MemoryError()) is ""
LoadErrors == {"", "CUDA failed"}

\* segment.text values as the model emits them
RawSegments == {<<" ">>, <<" ", "h", "i">>}

\* languages the detection pass may report
DetectLangs == {"en", "it", "fr"}

\* [whisper] language of config.ini, as tokens ("," is the separator)
LanguageStrings == {<<"auto">>, <<"EN">>, <<"en", ",", "it">>}

\* "paste_keys" of the defaults (line 127): "ctrl+v"
DefaultPasteKeys == <<"c", "t", "r", "l", "+", "v">>

\* the settings the process starts with: <<CONFIG, IS_WAYLAND>>.  auto_type
\* and the display protocol vary jointly; notifications and the language
\* setting vary around the defaults (auto_type on, notifications on)
Setups ==
    {<<[auto_type |-> a, notifications |-> TRUE, language |-> <<"auto">>,
        paste_keys |-> DefaultPasteKeys], w>> :
        a \in BOOLEAN, w \in BOOLEAN}
    \cup {<<[auto_type |-> TRUE, notifications |-> FALSE,
             language |-> <<"auto">>, paste_keys |-> DefaultPasteKeys], TRUE>>}
    \cup {<<[auto_type |-> TRUE, notifications |-> TRUE, language |-> l,
             paste_keys |-> DefaultPasteKeys], TRUE>> :
             l \in LanguageStrings}

\* parts of a [behavior] paste_keys setting: key names as users write them
\* (case, blanks), names the map does not know, the empty part
PasteParts == {
    <<"c", "t", "r", "l">>,
    <<"C", "t", "r", "l">>,
    <<"s", "h", "i", "f", "t">>,
    <<" ", "v">>,
    <<"V">>,
    <<"s", "u", "p", "e", "r">>,
    <<"b">>,
    <<"s">>,
    <<>>,
    <<"f", "1">>,
    <<"a", "l", "t", " ">>}

RECURSIVE JoinPlus(_)
\* the setting written with "+" between its parts
JoinPlus(parts) ==
    IF Len(parts) = 1 THEN parts[1]
    ELSE parts[1] \o <<"+">> \o JoinPlus(Tail(parts))

\* the paste_keys settings of up to MaxPasteKeys parts
PasteStrings ==
    {JoinPlus(ps) : ps \in UNION {[1..n -> PasteParts] : n \in 1..MaxPasteKeys}}

\* window classes KWin may report: terminal identifiers as listed and in
\* other case, near misses, other applications, the empty class
WindowClassStrings == {
    <<"o", "r", "g", ".", "k", "d", "e", ".", "k", "o", "n", "s", "o", "l", "e">>,
    <<"k", "o", "n", "s", "o", "l", "e">>,
    <<"a", "l", "a", "c", "r", "i", "t", "t", "y">>,
    <<"o", "r", "g", ".", "a", "l", "a", "c", "r", "i", "t", "t", "y", ".", "A", "l", "a", "c", "r", "i", "t", "t", "y">>,
    <<"k", "i", "t", "t", "y">>,
    <<"o", "r", "g", ".", "k", "d", "e", ".", "y", "a", "k", "u", "a", "k", "e">>,
    <<"g", "n", "o", "m", "e", "-", "t", "e", "r", "m", "i", "n", "a", "l">>,
    <<"g", "n", "o", "m", "e", "-", "t", "e", "r", "m", "i", "n", "a", "l", "-", "s", "e", "r", "v", "e", "r">>,
    <<"x", "f", "c", "e", "4", "-", "t", "e", "r", "m", "i", "n", "a", "l">>,
    <<"t", "e", "r", "m", "i", "n", "a", "t", "o", "r">>,
    <<"t", "i", "l", "i", "x">>,
    <<"f", "o", "o", "t">>,
    <<"w", "e", "z", "t", "e", "r", "m">>,
    <<"K", "i", "t", "t", "y">>,
    <<"K", "O", "N", "S", "O", "L", "E">>,
    <<"o", "r", "g", ".", "a", "l", "a", "c", "r", "i", "t", "t", "y", ".", "a", "l", "a", "c", "r", "i", "t", "t", "y">>,
    <<"A", "l", "a", "c", "r", "i", "t", "t", "y">>,
    <<"o", "r", "g", ".", "w", "e", "z", "f", "u", "r", "l", "o", "n", "g", ".", "w", "e", "z", "t", "e", "r", "m">>,
    <<"f", "i", "r", "e", "f", "o", "x">>,
    <<"k", "i", "t", "t", "y", "2">>,
    <<"k", "i", "t", "t">>,
    <<>>,
    <<"o", "r", "g", ".", "k", "d", "e", ".", "d", "o", "l", "p", "h", "i", "n">>,
    <<"F", "o", "o", "t">>}

VARIABLES
    CONFIG,            \* load_config(): auto_type, notifications, language,
                       \* paste_keys
    IS_WAYLAND,        \* display protocol detected at import
    PASTE_YDOTOOL_ARGS,\* module global of line 226 (NoArgs until assigned)
    window_class,      \* argument of a get_paste_keys_for_window call
    window_keys,       \* what that call returned (NoArgs before it returns)
    stamps,            \* whether the timestamps of the events (which the
                       \* code never reads) are kept: on under SpecOrder
    errlog,            \* whether the reads that raised BlockingIOError (of
                       \* which the code keeps no trace) are remembered: on
                       \* under SpecRead
    fd_to_device,      \* the devices run() monitors (line 626)
    blocked,           \* the device whose read raised BlockingIOError last
                       \* (NoDevice if none did); kept only when errlog is set
    recording,         \* self.recording
    record_process,    \* self.record_process (pid or NoProc)
    temp_file,         \* self.temp_file (file id or NoFile)
    model,             \* self.model
    model_loaded,      \* self.model_loaded (threading.Event)
    model_error,       \* self.model_error
    running,           \* self.running
    notification_id,   \* self.notification_id
    tray,              \* state last handed to _update_tray / _setup_tray
    loadpc,            \* position of the _load_model thread
    mainpc,            \* position of the main thread (run and its handlers)
    ready,             \* r of select.select: devices still to read this cycle
    batch,             \* events of the current device.read() still to handle
    arrived,           \* the hotkey events not yet handled, in the order
                       \* of their kernel timestamps (device and kind, and
                       \* whether stop_recording was running at arrival);
                       \* kept only when stamps is set
    devq,              \* per device: events buffered by the kernel
    sessions,          \* temp files created so far (names are never reused)
    procs,             \* arecord subprocesses spawned: pid -> state
    files,             \* temp files that exist on disk
    use_language,      \* local of stop_recording
    detect_info,       \* local of stop_recording: the language the detection
                       \* pass reported (detect_info.language), None before
    text,              \* local of stop_recording (NoText until computed)
    exc,               \* the exception being handled or propagating, named
                       \* by its kind or by the call that raised it
    passes,            \* model.transcribe calls of the current session
    clipboard,         \* texts piped to wl-copy / xclip in the current session
    injected,          \* ydotool / xdotool runs of the current session
    notified,          \* calls of self.notify in the current session, and
                       \* how each went out
    lastLog            \* why the latest hotkey event was ignored (the debug
                       \* and warning lines 467, 470, 501), None if handled

\* what no handler call changes
cfgvars == <<CONFIG, IS_WAYLAND, PASTE_YDOTOOL_ARGS, window_class, window_keys,
             stamps, errlog, fd_to_device, blocked>>
objvars == <<recording, record_process, temp_file, model, model_loaded,
             model_error, running, notification_id>>
loopvars == <<mainpc, ready, batch, arrived>>
envvars == <<devq, sessions, procs, files>>
sessvars == <<use_language, detect_info, text, exc, passes, clipboard,
              injected>>
vars == <<cfgvars, objvars, tray, loadpc, loopvars, envvars, sessvars,
          notified, lastLog>>

\* ------------------------------------------------------------ pure helpers

\* Python truthiness of an optional string (None and "" are falsy)
Truthy(s) == s # None /\ s # ""

\* str.lower() on the tokens of the language setting
Lower(tok) ==
    CASE tok = "EN" -> "en"
      [] tok = "IT" -> "it"
      [] tok = "AUTO" -> "auto"
      [] OTHER -> tok

RECURSIVE SplitComma(_)
\* lang_str.split(","): the parts between separators ("" for an empty part)
SplitComma(toks) ==
    IF toks = <<>> THEN <<"">>
    ELSE IF Head(toks) = "," THEN <<"">> \o SplitComma(Tail(toks))
    ELSE LET rest == SplitComma(Tail(toks))
         IN  <<Lower(Head(toks)) \o Head(rest)>> \o Tail(rest)

\* parse_language_config: <<language, allowed_languages>>
parse_language_config(lang_str) ==
    IF Len(lang_str) = 1 /\ Lower(lang_str[1]) = "auto" THEN <<None, <<>>>>
    ELSE LET parts == SplitComma(lang_str)
         IN  IF Len(parts) = 1 THEN <<parts[1], <<>>>>
             ELSE <<None, parts>>

LANGUAGE == parse_language_config(CONFIG.language)[1]
\* <<>> stands for None (both are falsy in "if ALLOWED_LANGUAGES")
ALLOWED_LANGUAGES == parse_language_config(CONFIG.language)[2]
\* the test of line 577 left out: the text is always injected
AutoTypeOn == TRUE

AUTO_TYPE == CONFIG.auto_type
NOTIFICATIONS == CONFIG.notifications

RECURSIVE LStrip(_)
LStrip(s) == IF s # <<>> /\ Head(s) = " " THEN LStrip(Tail(s)) ELSE s

RECURSIVE RStrip(_)
RStrip(s) ==
    IF s # <<>> /\ s[Len(s)] = " " THEN RStrip(SubSeq(s, 1, Len(s) - 1)) ELSE s

\* str.strip()
Strip(s) == RStrip(LStrip(s))

RECURSIVE Join(_)
\* " ".join(segment.text.strip() for segment in segments)
Join(segs) ==
    IF segs = <<>> THEN <<>>
    ELSE IF Len(segs) = 1 THEN Strip(segs[1])
    ELSE Strip(segs[1]) \o <<" ">> \o Join(Tail(segs))

SegmentLists == UNION {[1..n -> RawSegments] : n \in 0..MaxSegments}

\* ------------------------------------------------------------ strings
\* A str is the sequence of its characters.

UpperCase == <<"A", "B", "C", "D", "E", "F", "G", "H", "I", "J", "K", "L", "M", "N", "O", "P", "Q", "R", "S", "T", "U", "V", "W", "X", "Y", "Z">>
LowerCase == <<"a", "b", "c", "d", "e", "f", "g", "h", "i", "j", "k", "l", "m", "n", "o", "p", "q", "r", "s", "t", "u", "v", "w", "x", "y", "z">>

\* one character of str.lower()
LowerChar(c) ==
    IF \E i \in DOMAIN UpperCase : UpperCase[i] = c
    THEN LowerCase[CHOOSE i \in DOMAIN UpperCase : UpperCase[i] = c]
    ELSE c

\* str.lower()
lower(s) == [i \in DOMAIN s |-> LowerChar(s[i])]

RECURSIVE SplitPlus(_)
\* paste_keys_str.split("+"): the parts between separators (empty parts too)
SplitPlus(s) ==
    IF s = <<>> THEN << <<>> >>
    ELSE IF Head(s) = "+" THEN << <<>> >> \o SplitPlus(Tail(s))
    ELSE LET rest == SplitPlus(Tail(s))
         IN  << <<Head(s)>> \o Head(rest) >> \o Tail(rest)

\* ------------------------------------------------------------ paste keys

\* key name -> evdev keycode (lines 195-204)
PASTE_KEYCODE_MAP ==
       (<<"c", "t", "r", "l">> :> 29)
    @@ (<<"c", "o", "n", "t", "r", "o", "l">> :> 29)
    @@ (<<"a", "l", "t">> :> 56)
    @@ (<<"s", "h", "i", "f", "t">> :> 42)
    @@ (<<"s", "u", "p", "e", "r">> :> 125)
    @@ (<<"m", "e", "t", "a">> :> 125)
    @@ (<<"c", "m", "d">> :> 125)
    @@ (<<"c", "o", "m", "m", "a", "n", "d">> :> 125)
    @@ (<<"a">> :> 30)
    @@ (<<"b">> :> 31)
    @@ (<<"c">> :> 46)
    @@ (<<"d">> :> 32)
    @@ (<<"e">> :> 18)
    @@ (<<"f">> :> 33)
    @@ (<<"g">> :> 34)
    @@ (<<"h">> :> 35)
    @@ (<<"i">> :> 23)
    @@ (<<"j">> :> 36)
    @@ (<<"k">> :> 37)
    @@ (<<"l">> :> 38)
    @@ (<<"m">> :> 50)
    @@ (<<"n">> :> 49)
    @@ (<<"o">> :> 24)
    @@ (<<"p">> :> 25)
    @@ (<<"q">> :> 16)
    @@ (<<"r">> :> 19)
    @@ (<<"s">> :> 31)
    @@ (<<"t">> :> 20)
    @@ (<<"u">> :> 22)
    @@ (<<"v">> :> 47)
    @@ (<<"w">> :> 17)
    @@ (<<"x">> :> 45)
    @@ (<<"y">> :> 21)
    @@ (<<"z">> :> 44)

RECURSIVE Keycodes(_)
\* lines 209-214: the codes of the recognised parts, in order
Keycodes(parts) ==
    IF parts = <<>> THEN <<>>
    ELSE (IF Head(parts) \in DOMAIN PASTE_KEYCODE_MAP
          THEN <<PASTE_KEYCODE_MAP[Head(parts)]>>
          ELSE <<>>) \o Keycodes(Tail(parts))

\* an element "<kc>:<v>" of the ydotool arguments: <<kc, v>>, v = 1 for a
\* press and 0 for a release
KeyArg(kc, v) == <<kc, v>>

\* lines 215-217: no valid key, default to Ctrl+V
OrCtrlV(keycodes) == IF keycodes = <<>> THEN <<29, 47>> ELSE keycodes

\* the releases in the order of the presses
NotReversed(q) == q

\* reversed(keycodes) (line 222)
reversed(q) == [i \in DOMAIN q |-> q[Len(q) + 1 - i]]

\* parse_paste_keys (lines 206-224)
parse_paste_keys(s) ==
    LET split == SplitPlus(s)
        parts == [i \in DOMAIN split |-> lower(Strip(split[i]))]
        keycodes == OrCtrlV(Keycodes(parts))
        released == reversed(keycodes)
    IN  [i \in DOMAIN keycodes |-> KeyArg(keycodes[i], 1)]
        \o [i \in DOMAIN released |-> KeyArg(released[i], 0)]

\* line 227
PASTE_TERMINAL_ARGS ==
    parse_paste_keys(<<"c", "t", "r", "l", "+", "s", "h", "i", "f", "t", "+", "v">>)

\* window classes of terminal emulators (lines 231-238)
TERMINAL_APPS == {
    <<"o", "r", "g", ".", "k", "d", "e", ".", "k", "o", "n", "s", "o", "l", "e">>,
    <<"k", "o", "n", "s", "o", "l", "e">>,
    <<"a", "l", "a", "c", "r", "i", "t", "t", "y">>,
    <<"o", "r", "g", ".", "a", "l", "a", "c", "r", "i", "t", "t", "y", ".", "A", "l", "a", "c", "r", "i", "t", "t", "y">>,
    <<"k", "i", "t", "t", "y">>,
    <<"o", "r", "g", ".", "k", "d", "e", ".", "y", "a", "k", "u", "a", "k", "e">>,
    <<"g", "n", "o", "m", "e", "-", "t", "e", "r", "m", "i", "n", "a", "l">>,
    <<"g", "n", "o", "m", "e", "-", "t", "e", "r", "m", "i", "n", "a", "l", "-", "s", "e", "r", "v", "e", "r">>,
    <<"x", "f", "c", "e", "4", "-", "t", "e", "r", "m", "i", "n", "a", "l">>,
    <<"t", "e", "r", "m", "i", "n", "a", "t", "o", "r">>,
    <<"t", "i", "l", "i", "x">>,
    <<"f", "o", "o", "t">>,
    <<"w", "e", "z", "t", "e", "r", "m">>}

\* ydotool arguments not yet computed / no answer (distinct from every list
\* parse_paste_keys returns, which is never empty)
NoArgs == <<>>

\* a window class that is None
NoClass == <<None>>

\* the matching of line 264 with lower() left out on the class
IsTerminalExact(window_class_) == window_class_ \in TERMINAL_APPS

\* "window_class.lower() in {t.lower() for t in TERMINAL_APPS}" (line 264)
IsTerminal(window_class_) ==
    lower(window_class_) \in {lower(t) : t \in TERMINAL_APPS}

\* get_paste_keys_for_window (lines 260-268)
get_paste_keys_for_window(window_class_) ==
    IF window_class_ # NoClass /\ window_class_ # <<>> /\ IsTerminal(window_class_)
    THEN PASTE_TERMINAL_ARGS
    ELSE PASTE_YDOTOOL_ARGS

\* ------------------------------------------------------------ environment

LiveProcs == {p \in DOMAIN procs : procs[p] # "exited"}

Alive == mainpc \notin {"exited", "crashed"}

RECURSIVE CountIn(_, _)
\* how many events of q are of a kind in K
CountIn(q, K) ==
    IF q = <<>> THEN 0
    ELSE (IF Head(q) \in K THEN 1 ELSE 0) + CountIn(Tail(q), K)

RECURSIVE BufferedFrom(_, _)
\* events of a kind in K the kernel holds for the devices d..Len(Devices)
BufferedFrom(d, K) ==
    IF d > Len(Devices) THEN 0
    ELSE CountIn(devq[d], K) + BufferedFrom(d + 1, K)

RECURSIVE CountDev(_, _)
\* how many events of the arrival order came from device d
CountDev(arr, d) ==
    IF arr = <<>> THEN 0
    ELSE (IF Head(arr).dev = d THEN 1 ELSE 0) + CountDev(Tail(arr), d)

\* the loop variable of line 633 while the events of a read are handled:
\* the device that has pending events outside the kernel's buffer
device ==
    IF batch = <<>> \/ ~stamps THEN NoDevice
    ELSE CHOOSE d \in DeviceIds : CountDev(arrived, d) > Len(devq[d])

\* events not yet handled: buffered by the kernel, or read and waiting
Pending == BufferedFrom(1, EventKinds) + Len(batch)

\* hotkey presses not yet handled
PendingPresses == BufferedFrom(1, {"press"}) + CountIn(batch, {"press"})

\* the fields of the Dictation object after __init__, the threads at their
\* start, nothing buffered, nothing spawned
InitObject ==
    /\ recording = FALSE
    /\ record_process = NoProc
    /\ temp_file = NoFile
    /\ model = None
    /\ model_loaded = FALSE
    /\ model_error = None
    /\ running = TRUE
    /\ notification_id = 0
    /\ tray = "loading"
    /\ loadpc = "start"
    /\ mainpc = "select"
    /\ fd_to_device = DeviceIds
    /\ blocked = NoDevice
    /\ ready = <<>>
    /\ batch = <<>>
    /\ arrived = <<>>
    /\ devq = [d \in DeviceIds |-> <<>>]
    /\ sessions = 0
    /\ procs = <<>>
    /\ files = {}
    /\ use_language = None
    /\ detect_info = None
    /\ text = NoText
    /\ exc = None
    /\ passes = <<>>
    /\ clipboard = <<>>
    /\ injected = <<>>
    /\ notified = <<>>
    /\ lastLog = None

\* after import and construction: the module globals are computed from the
\* settings, get_paste_keys_for_window has not been called
Init ==
    /\ \E su \in Setups : CONFIG = su[1] /\ IS_WAYLAND = su[2]
    /\ PASTE_YDOTOOL_ARGS = parse_paste_keys(CONFIG.paste_keys)
    /\ window_class = NoClass
    /\ window_keys = NoArgs
    /\ stamps = FALSE
    /\ errlog = FALSE
    /\ InitObject

\* ------------------------------------------------------------ _load_model

\* WhisperModel(...) returns: self.model is assigned (line 410)
LoadModelOk ==
    /\ Alive /\ loadpc = "start"
    /\ model' = "WhisperModel"
    /\ loadpc' = "constructed"
    /\ UNCHANGED <<cfgvars, recording, record_process, temp_file, model_loaded,
                   model_error, running, notification_id, tray, loopvars,
                   envvars, sessvars, notified, lastLog>>

\* line 417 left out: the handler records nothing
RecordedErrorNone(msg) == None

\* what line 417 stores in self.model_error for an exception e: str(e)
RecordedError(msg) == msg

\* WhisperModel(...) raises: self.model_error = str(e) (line 417)
LoadModelFail ==
    /\ Alive /\ loadpc = "start"
    /\ \E msg \in LoadErrors : model_error' = RecordedError(msg)
    /\ loadpc' = "failed"
    /\ UNCHANGED <<cfgvars, recording, record_process, temp_file, model,
                   model_loaded, running, notification_id, tray, loopvars,
                   envvars, sessvars, notified, lastLog>>

\* self.model_loaded.set() (lines 412 and 418)
LoadSetEvent ==
    /\ Alive /\ loadpc \in {"constructed", "failed"}
    /\ model_loaded' = TRUE
    /\ loadpc' = IF loadpc = "constructed" THEN "loaded" ELSE "done"
    /\ UNCHANGED <<cfgvars, recording, record_process, temp_file, model,
                   model_error, running, notification_id, tray, loopvars,
                   envvars, sessvars, notified, lastLog>>

\* self._update_tray("ready") (line 415)
LoadTrayReady ==
    /\ Alive /\ loadpc = "loaded"
    /\ tray' = "ready"
    /\ loadpc' = "done"
    /\ UNCHANGED <<cfgvars, objvars, loopvars, envvars, sessvars, notified,
                   lastLog>>

\* ------------------------------------------------------------ states of the orchestrator

\* the main thread is in the loop of run, between two handler calls
InLoop == mainpc \in {"select", "read", "dispatch"}

Idle == InLoop /\ ~recording

\* the main thread is inside stop_recording, past line 504
Processing ==
    mainpc \in {"stop_wait", "stop_model_wait", "stop_return",
                "stop_transcribe", "stop_real_pass", "stop_deliver",
                "stop_inject", "stop_notify", "stop_except", "stop_finally"}

\* ------------------------------------------------------------ environment steps

\* the kernel buffers a hotkey event of device d
KeyEvent ==
    /\ Alive /\ Pending < MaxQueue
    /\ \E d \in DeviceIds, k \in EventKinds :
          /\ k = "press" => sessions + PendingPresses < MaxSessions
          /\ devq' = [devq EXCEPT ![d] = Append(@, k)]
          /\ arrived' =
                IF stamps
                THEN Append(arrived,
                            [dev |-> d, kind |-> k, busy |-> Processing])
                ELSE arrived
    /\ UNCHANGED <<cfgvars, objvars, tray, loadpc, mainpc, ready, batch,
                   sessions, procs, files, sessvars, notified,
                   lastLog>>

\* an arecord subprocess exits: on SIGTERM, or by itself (device error)
ArecordExit ==
    /\ \E p \in LiveProcs : procs' = [procs EXCEPT ![p] = "exited"]
    /\ UNCHANGED <<cfgvars, objvars, tray, loadpc, loopvars, devq, sessions,
                   files, sessvars, notified, lastLog>>

\* ------------------------------------------------------------ run

RECURSIVE ReadyFrom(_, _)
\* the devices of S among d..Len(Devices), in fd order
ReadyFrom(d, S) ==
    IF d > Len(Devices) THEN <<>>
    ELSE (IF d \in S THEN <<d>> ELSE <<>>) \o ReadyFrom(d + 1, S)

\* the monitored devices that hold a hotkey event
Readable == {d \in fd_to_device : devq[d] # <<>>}

\* while self.running: r, _, _ = select.select(...) (lines 629-631): r has
\* the monitored devices that hold a hotkey event, and may have others
\* (events of other keys, a readiness that is gone at the read); a timeout
\* with nothing readable leaves the state as it is
Select ==
    /\ mainpc = "select" /\ running
    /\ \E S \in SUBSET fd_to_device :
          /\ S # {}
          /\ Readable \subseteq S
          /\ ready' = ReadyFrom(1, S)
    /\ mainpc' = "read"
    /\ UNCHANGED <<cfgvars, objvars, tray, loadpc, batch, arrived,
                   envvars, sessvars, notified, lastLog>>

RECURSIVE Reverse(_)
Reverse(q) == IF q = <<>> THEN <<>> ELSE Append(Reverse(Tail(q)), Head(q))

\* the events of a read handed out newest first
ReadEventsReversed(d) == Reverse(devq[d])

\* device.read() (line 635): the buffered events of the device, oldest first
ReadEvents(d) == devq[d]

\* for fd in r: ... device.read() (lines 632-635): the whole buffer at once
Read ==
    /\ mainpc = "read"
    /\ IF ready = <<>>
       THEN /\ mainpc' = "select"
            /\ UNCHANGED <<ready, batch, devq>>
       ELSE /\ batch' = ReadEvents(Head(ready))
            /\ devq' = [devq EXCEPT ![Head(ready)] = <<>>]
            /\ ready' = Tail(ready)
            /\ mainpc' = "dispatch"
    /\ UNCHANGED <<cfgvars, objvars, tray, loadpc, arrived, sessions, procs,
                   files, sessvars, notified, lastLog>>

\* the device table after a read of device d raised BlockingIOError, had
\* the handler dropped the device
WithoutDevice(monitored, d) == monitored \ {d}

\* "except BlockingIOError: pass" (lines 643-644): the device table after a
\* read of device d raised
AfterBlockedRead(monitored, d) == monitored

\* device.read() raises BlockingIOError (line 635): the device has nothing
\* to read; the handler of lines 643-644 passes, on to the next fd
ReadBlocks ==
    /\ mainpc = "read"
    /\ ready # <<>>
    /\ devq[Head(ready)] = <<>>
    /\ ready' = Tail(ready)
    /\ fd_to_device' = AfterBlockedRead(fd_to_device, Head(ready))
    /\ blocked' = IF errlog THEN Head(ready) ELSE blocked
    /\ UNCHANGED <<CONFIG, IS_WAYLAND, PASTE_YDOTOOL_ARGS, window_class,
                   window_keys, stamps, errlog, objvars, tray, loadpc, mainpc,
                   batch, arrived, envvars, sessvars, notified, lastLog>>

\* the events of one read are exhausted (line 635): on to the next fd
ReadDone ==
    /\ mainpc = "dispatch"
    /\ batch = <<>>
    /\ mainpc' = "read"
    /\ UNCHANGED <<cfgvars, objvars, tray, loadpc, ready, batch, arrived,
                   envvars, sessvars, notified, lastLog>>

\* ------------------------------------------------------------ process end

\* The process ends (os._exit, or an exception leaving run and main): its
\* daemon threads, its locals and its device handles end with it.  What
\* lives outside the process stays as it is: the arecord subprocesses, the
\* files on disk, the notifications shown.  The fields of the Dictation
\* object are kept as they were at the end.
ProcessEnds(how) ==
    /\ mainpc' = how
    /\ loadpc' = "ended"
    /\ ready' = <<>>
    /\ batch' = <<>>
    /\ arrived' = <<>>
    /\ devq' = [d \in DeviceIds |-> <<>>]
    /\ use_language' = None
    /\ detect_info' = None
    /\ text' = NoText
    /\ passes' = <<>>
    /\ clipboard' = <<>>
    /\ injected' = <<>>

\* device.read() raises another OSError (line 635; errno ENODEV once the
\* keyboard is unplugged): line 643 does not catch it, it leaves run
ReadFails ==
    /\ mainpc = "read"
    /\ ready # <<>>
    /\ ProcessEnds("crashed")
    /\ exc' = "device.read"
    /\ UNCHANGED <<cfgvars, objvars, tray, sessions, procs, files, notified,
                   lastLog>>

\* the place in the arrival order of the oldest pending event of device d
FirstOf(arr, d) ==
    CHOOSE i \in DOMAIN arr :
        arr[i].dev = d /\ \A j \in 1..(i - 1) : arr[j].dev # d

\* the arrival order once the oldest pending event of device d is handled
Handled(arr, d) ==
    IF ~stamps THEN arr
    ELSE LET i == FirstOf(arr, d)
         IN  SubSeq(arr, 1, i - 1) \o SubSeq(arr, i + 1, Len(arr))

\* the main thread goes on at pc with the events b of the current read left
Continue(pc, b) ==
    /\ mainpc' = pc
    /\ batch' = b
    /\ arrived' = IF b = batch THEN arrived ELSE Handled(arrived, device)
    /\ UNCHANGED <<loadpc, ready, devq, use_language, detect_info, text,
                   passes, clipboard, injected>>

\* ------------------------------------------------------------ notify

\* how one call of notify goes out: suppressed (line 425); through gdbus,
\* whose output holds an id (id > 0) or none (lines 431-456); through
\* notify-send after gdbus raised (lines 457-463); or notify-send raises too
NotifyOutcomes ==
    IF NOTIFICATIONS
    THEN {[via |-> "gdbus", id |-> i] : i \in 0..MaxNotifId}
         \cup {[via |-> "notify-send", id |-> 0], [via |-> "raise", id |-> 0]}
    ELSE {[via |-> "suppressed", id |-> 0]}

\* the replaces_id argument of the gdbus call (line 438)
ReplacesId == 0

notify(title, body, out) ==
    /\ notified' = Append(notified, [title |-> title, body |-> body,
                                     replaces |-> ReplacesId])
    /\ notification_id' =
          IF out.via = "gdbus" /\ out.id # 0 THEN out.id ELSE notification_id

\* ------------------------------------------------------------ start_recording

\* the guard of line 466 left out
AlreadyRecordingNever == FALSE

\* "if self.recording" (line 466)
AlreadyRecording == recording

\* "if self.model_error" (lines 469 and 521)
ModelFailed == Truthy(model_error)

HotkeyPressed == mainpc = "dispatch" /\ batch # <<>> /\ Head(batch) = "press"

\* lines 466-468
StartIgnoredRecording ==
    /\ HotkeyPressed /\ AlreadyRecording
    /\ batch' = Tail(batch)
    /\ arrived' = Handled(arrived, device)
    /\ lastLog' = "already recording"
    /\ UNCHANGED <<cfgvars, objvars, tray, loadpc, mainpc, ready, envvars,
                   sessvars, notified>>

\* lines 469-471
StartIgnoredModelError ==
    /\ HotkeyPressed /\ ~AlreadyRecording /\ ModelFailed
    /\ batch' = Tail(batch)
    /\ arrived' = Handled(arrived, device)
    /\ lastLog' = "model failed to load"
    /\ UNCHANGED <<cfgvars, objvars, tray, loadpc, mainpc, ready, envvars,
                   sessvars, notified>>

\* lines 473-477: the flag, the tray and the fresh temp file
StartSession ==
    /\ recording' = TRUE
    /\ tray' = "recording"
    /\ sessions' = sessions + 1
    /\ temp_file' = sessions + 1
    /\ files' = files \cup {sessions + 1}

\* lines 473-497 with subprocess.Popen returning
StartRecording ==
    /\ HotkeyPressed /\ ~AlreadyRecording /\ ~ModelFailed
    /\ StartSession
    /\ procs' = Append(procs, "running")
    /\ record_process' = Len(procs) + 1
    /\ lastLog' = None
    /\ \E out \in NotifyOutcomes :
          /\ notify("Recording...", "Release when done", out)
          /\ IF out.via = "raise"
             THEN ProcessEnds("crashed") /\ exc' = "notify@497"
             ELSE Continue("dispatch", Tail(batch)) /\ exc' = exc
    /\ UNCHANGED <<cfgvars, model, model_loaded, model_error, running>>

\* lines 473-495 with subprocess.Popen raising (arecord cannot be spawned):
\* nothing in start_recording or run catches it
StartSpawnFails ==
    /\ HotkeyPressed /\ ~AlreadyRecording /\ ~ModelFailed
    /\ StartSession
    /\ ProcessEnds("crashed")
    /\ exc' = "Popen"
    /\ UNCHANGED <<cfgvars, record_process, model, model_loaded, model_error,
                   running, notification_id, procs, notified, lastLog>>

start_recording ==
    \/ StartIgnoredRecording
    \/ StartIgnoredModelError
    \/ StartRecording
    \/ StartSpawnFails

\* ------------------------------------------------------------ stop_recording

\* the guard of line 500 left out
NotRecordingNever == FALSE

\* "if not self.recording" (line 500)
NotRecording == ~recording

HotkeyReleased == mainpc = "dispatch" /\ batch # <<>> /\ Head(batch) = "release"

\* lines 500-502
StopIgnored ==
    /\ HotkeyReleased /\ NotRecording
    /\ batch' = Tail(batch)
    /\ arrived' = Handled(arrived, device)
    /\ lastLog' = "not recording"
    /\ UNCHANGED <<cfgvars, objvars, tray, loadpc, mainpc, ready, envvars,
                   sessvars, notified>>

\* self.record_process.terminate(): SIGTERM to a subprocess that still runs
Terminate(pid) ==
    IF pid # NoProc /\ procs[pid] = "running"
    THEN [procs EXCEPT ![pid] = "signalled"]
    ELSE procs

\* lines 504-509: clear the flag, send the termination signal
StopBegin ==
    /\ HotkeyReleased /\ ~NotRecording
    /\ batch' = Tail(batch)
    /\ arrived' = Handled(arrived, device)
    /\ recording' = FALSE
    /\ procs' = Terminate(record_process)
    /\ mainpc' = "stop_wait"
    /\ lastLog' = None
    /\ UNCHANGED <<cfgvars, record_process, temp_file, model, model_loaded,
                   model_error, running, notification_id, tray, loadpc, ready,
                   devq, sessions, files, sessvars, notified>>

\* line 510 left out: the signal is sent and nothing waits for the exit
WaitReturnsAtOnce(pid) == TRUE

\* self.record_process.wait() returns (line 510)
WaitReturns(pid) == pid = NoProc \/ procs[pid] = "exited"

\* line 511 left out: the handle of the exited subprocess is kept
KeptHandle(pid) == pid

\* self.record_process = None (line 511)
DroppedHandle(pid) == NoProc

\* lines 510-514: the subprocess has exited; drop the handle, tray "processing"
StopWaited ==
    /\ mainpc = "stop_wait"
    /\ WaitReturns(record_process)
    /\ record_process' = DroppedHandle(record_process)
    /\ tray' = "processing"
    /\ mainpc' = "stop_model_wait"
    /\ UNCHANGED <<cfgvars, recording, temp_file, model, model_loaded,
                   model_error, running, notification_id, loadpc, ready, batch, arrived,
                   envvars, sessvars, notified, lastLog>>

\* self.model_loaded.wait() returns (line 519)
ModelWaitReturns == model_loaded

\* str(e) of the exceptions the try block of stop_recording may raise, by
\* the kind kept in exc: self.model is None, os.path.getsize fails, the
\* model fails, wl-copy (xclip, ydotool, xdotool) is missing, notify-send is
\* missing
ErrorText(kind) ==
    CASE kind = "AttributeError" ->
           <<"'", "N", "o", "n", "e", "T", "y", "p", "e", "'", " ", "o", "b", "j", "e", "c", "t", " ", "h", "a", "s", " ", "n", "o", " ", "a", "t", "t", "r", "i", "b", "u", "t", "e", " ", "'", "t", "r", "a", "n", "s", "c", "r", "i", "b", "e", "'">>
      [] kind = "OSError" ->
           <<"[", "E", "r", "r", "n", "o", " ", "2", "]", " ", "N", "o", " ", "s", "u", "c", "h", " ", "f", "i", "l", "e", " ", "o", "r", " ", "d", "i", "r", "e", "c", "t", "o", "r", "y", ":", " ", "'", "/", "t", "m", "p", "/", "t", "m", "p", "k", "3", "v", "9", "x", "_", "1", "a", ".", "w", "a", "v", "'">>
      [] kind = "RuntimeError" ->
           <<"C", "U", "D", "A", " ", "f", "a", "i", "l", "e", "d", " ", "w", "i", "t", "h", " ", "e", "r", "r", "o", "r", " ", "o", "u", "t", " ", "o", "f", " ", "m", "e", "m", "o", "r", "y">>
      [] kind = "FileNotFoundError" ->
           <<"[", "E", "r", "r", "n", "o", " ", "2", "]", " ", "N", "o", " ", "s", "u", "c", "h", " ", "f", "i", "l", "e", " ", "o", "r", " ", "d", "i", "r", "e", "c", "t", "o", "r", "y", ":", " ", "'", "w", "l", "-", "c", "o", "p", "y", "'">>
      [] OTHER ->
           <<"[", "E", "r", "r", "n", "o", " ", "2", "]", " ", "N", "o", " ", "s", "u", "c", "h", " ", "f", "i", "l", "e", " ", "o", "r", " ", "d", "i", "r", "e", "c", "t", "o", "r", "y", ":", " ", "'", "n", "o", "t", "i", "f", "y", "-", "s", "e", "n", "d", "'">>

\* the message handed to notify without the slice of line 592
Unsliced(str, n) == str

\* str[:n]
Slice(str, n) == SubSeq(str, 1, IF Len(str) < n THEN Len(str) ELSE n)

\* the message of line 523
ModelFailedMessage == <<"M", "o", "d", "e", "l", " ", "f", "a", "i", "l", "e", "d", " ", "t", "o", " ", "l", "o", "a", "d">>

\* lines 521-524: the load failed; notify and return (before the try block)
StopModelError ==
    /\ mainpc = "stop_model_wait"
    /\ ModelWaitReturns /\ ModelFailed
    /\ lastLog' = lastLog
    /\ \E out \in NotifyOutcomes :
          /\ notify("Error", ModelFailedMessage, out)
          /\ IF out.via = "raise"
             THEN ProcessEnds("crashed") /\ exc' = "notify@523"
             ELSE Continue("stop_return", batch) /\ exc' = exc
    /\ UNCHANGED <<cfgvars, recording, record_process, temp_file, model,
                   model_loaded, model_error, running, tray, sessions, procs,
                   files>>

\* line 524: return; the session ends here, outside the try block
StopReturn ==
    /\ mainpc = "stop_return"
    /\ mainpc' = "dispatch"
    /\ notified' = <<>>
    /\ UNCHANGED <<cfgvars, objvars, tray, loadpc, ready, batch, arrived,
                   envvars,
                   use_language, detect_info, text, exc, passes, clipboard,
                   injected,
                   lastLog>>

\* line 519 returns and line 521 is false: enter the try block
StopModelReady ==
    /\ mainpc = "stop_model_wait"
    /\ ModelWaitReturns /\ ~ModelFailed
    /\ mainpc' = "stop_transcribe"
    /\ UNCHANGED <<cfgvars, objvars, tray, loadpc, ready, batch, arrived,
                   envvars,
                   sessvars, notified, lastLog>>

\* one call of self.model.transcribe
Pass(beam, lang) == [beam_size |-> beam, vad_filter |-> TRUE, language |-> lang]

\* lines 545-549 without the test of line 545: the detected language is used
ResolveLanguageUnchecked(detected) == detected

\* lines 537-549: the language of the real pass, given the detection result
ResolveLanguage(detected) ==
    IF \E i \in 1..Len(ALLOWED_LANGUAGES) : ALLOWED_LANGUAGES[i] = detected
    THEN detected
    ELSE ALLOWED_LANGUAGES[1]

\* the detection of lines 538-549 left out
NeedsDetectionNever == FALSE

\* "if ALLOWED_LANGUAGES and not LANGUAGE" (line 538)
NeedsDetection == ALLOWED_LANGUAGES # <<>> /\ ~Truthy(LANGUAGE)

\* lines 533-534 raise (os.path.getsize), or self.model is None (line 540 or
\* 551: AttributeError): an exception before any pass
StopTranscribeRaisesEarly ==
    /\ mainpc = "stop_transcribe"
    /\ exc' = IF model = None THEN "AttributeError" ELSE "OSError"
    /\ mainpc' = "stop_except"
    /\ UNCHANGED <<cfgvars, objvars, tray, loadpc, ready, batch, arrived,
                   envvars,
                   use_language, detect_info, text, passes, clipboard, injected,
                   notified,
                   lastLog>>

\* lines 538-549: the detection pass of restricted-auto mode
StopDetect ==
    /\ mainpc = "stop_transcribe"
    /\ model # None
    /\ NeedsDetection
    /\ passes' = Append(passes, Pass(1, None))
    /\ \/ \E detected \in DetectLangs :
             /\ detect_info' = detected
             /\ use_language' = ResolveLanguage(detected)
             /\ mainpc' = "stop_real_pass"
             /\ exc' = exc
       \/ /\ exc' = "RuntimeError"
          /\ mainpc' = "stop_except"
          /\ UNCHANGED <<use_language, detect_info>>
    /\ UNCHANGED <<cfgvars, objvars, tray, loadpc, ready, batch, arrived,
                   envvars,
                   text, clipboard, injected, notified, lastLog>>

\* line 537 alone: forced and full-auto mode run no detection pass
StopNoDetect ==
    /\ mainpc = "stop_transcribe"
    /\ model # None
    /\ ~NeedsDetection
    /\ use_language' = LANGUAGE
    /\ mainpc' = "stop_real_pass"
    /\ UNCHANGED <<cfgvars, objvars, tray, loadpc, ready, batch, arrived,
                   envvars,
                   detect_info,
                   text, exc, passes, clipboard, injected, notified, lastLog>>

\* lines 551-560: the real pass and the join of its segments
StopRealPass ==
    /\ mainpc = "stop_real_pass"
    /\ passes' = Append(passes, Pass(5, use_language))
    /\ \/ \E segments \in SegmentLists :
             /\ text' = Join(segments)
             /\ mainpc' = "stop_deliver"
             /\ exc' = exc
       \/ /\ exc' = "RuntimeError"
          /\ mainpc' = "stop_except"
          /\ text' = text
    /\ UNCHANGED <<cfgvars, objvars, tray, loadpc, ready, batch, arrived,
                   envvars,
                   use_language, detect_info, clipboard, injected, notified,
                   lastLog>>

\* line 562 left out: every result is delivered
HasTextAlways(t) == TRUE

\* "if text" (line 562)
HasText(t) == t # <<>>

\* lines 565-574: pipe the text to wl-copy or xclip
StopClipboard ==
    /\ mainpc = "stop_deliver"
    /\ HasText(text)
    /\ \/ /\ clipboard' = Append(clipboard,
                 [tool |-> IF IS_WAYLAND THEN "wl-copy" ELSE "xclip",
                  input |-> text])
          /\ mainpc' = "stop_inject"
          /\ exc' = exc
       \/ /\ exc' = "FileNotFoundError"
          /\ mainpc' = "stop_except"
          /\ clipboard' = clipboard
    /\ UNCHANGED <<cfgvars, objvars, tray, loadpc, ready, batch, arrived,
                   envvars,
                   use_language, detect_info, text, passes, injected, notified,
                   lastLog>>

\* the class of the window that has the focus when ydotool sends the keys:
\* a terminal emulator or another application
FocusClasses == {<<"k", "i", "t", "t", "y">>, <<"f", "i", "r", "e", "f", "o", "x">>}

\* lines 577-583: paste the clipboard (ydotool) or type the text (xdotool);
\* "focus" records where the keys of ydotool land
StopInject ==
    /\ mainpc = "stop_inject"
    /\ AUTO_TYPE
    /\ \/ /\ IF IS_WAYLAND
             THEN \E f \in FocusClasses :
                     injected' = Append(injected,
                         [tool |-> "ydotool", arg |-> PASTE_YDOTOOL_ARGS,
                          focus |-> f])
             ELSE injected' = Append(injected,
                         [tool |-> "xdotool", arg |-> text, focus |-> NoClass])
          /\ mainpc' = "stop_notify"
          /\ exc' = exc
       \/ /\ exc' = "FileNotFoundError"
          /\ mainpc' = "stop_except"
          /\ injected' = injected
    /\ UNCHANGED <<cfgvars, objvars, tray, loadpc, ready, batch, arrived,
                   envvars,
                   use_language, detect_info, text, passes, clipboard, notified,
                   lastLog>>

\* line 577 is false: nothing is injected
StopNoInject ==
    /\ mainpc = "stop_inject"
    /\ ~AUTO_TYPE
    /\ mainpc' = "stop_notify"
    /\ UNCHANGED <<cfgvars, objvars, tray, loadpc, ready, batch, arrived,
                   envvars,
                   sessvars, notified, lastLog>>

\* a notify call inside the try block: a raise is caught at line 590
NotifyInTry(title, body) ==
    \E out \in NotifyOutcomes :
       /\ notify(title, body, out)
       /\ IF out.via = "raise"
          THEN mainpc' = "stop_except" /\ exc' = "notify@try"
          ELSE mainpc' = "stop_finally" /\ exc' = None

\* line 585
StopCopied ==
    /\ mainpc = "stop_notify"
    /\ NotifyInTry("Copied!", "text[:100]")
    /\ lastLog' = lastLog
    /\ UNCHANGED <<cfgvars, recording, record_process, temp_file, model,
                   model_loaded, model_error, running, tray, loadpc, ready,
                   batch, arrived, envvars, use_language, detect_info, text, passes,
                   clipboard,
                   injected>>

\* lines 586-588
StopNoSpeech ==
    /\ mainpc = "stop_deliver"
    /\ ~HasText(text)
    /\ NotifyInTry("No speech detected", "Try speaking louder")
    /\ lastLog' = lastLog
    /\ UNCHANGED <<cfgvars, recording, record_process, temp_file, model,
                   model_loaded, model_error, running, tray, loadpc, ready,
                   batch, arrived, envvars, use_language, detect_info, text, passes,
                   clipboard,
                   injected>>

\* lines 590-592: the handler notifies; a raise of this notify propagates
StopExcept ==
    /\ mainpc = "stop_except"
    /\ lastLog' = lastLog
    /\ \E out \in NotifyOutcomes :
          /\ notify("Error", Slice(ErrorText(exc), 50), out)
          /\ exc' = IF out.via = "raise" THEN "notify@592" ELSE None
    /\ mainpc' = "stop_finally"
    /\ UNCHANGED <<cfgvars, recording, record_process, temp_file, model,
                   model_loaded, model_error, running, tray, loadpc, ready,
                   batch, arrived, envvars, use_language, detect_info, text, passes,
                   clipboard,
                   injected>>

\* lines 595-597: unlink the temp file if it exists
Cleanup == IF temp_file # NoFile THEN files \ {temp_file} ELSE files

\* lines 593-598, then back in run (or out of it with the exception); the
\* locals of stop_recording end here
StopFinally ==
    /\ mainpc = "stop_finally"
    /\ files' = Cleanup
    /\ tray' = "ready"
    /\ IF exc = None
       THEN /\ mainpc' = "dispatch"
            /\ use_language' = None
            /\ detect_info' = None
            /\ text' = NoText
            /\ passes' = <<>>
            /\ clipboard' = <<>>
            /\ injected' = <<>>
            /\ notified' = <<>>
            /\ UNCHANGED <<loadpc, ready, batch, arrived, devq>>
       ELSE ProcessEnds("crashed") /\ notified' = notified
    /\ UNCHANGED <<cfgvars, objvars, sessions, procs, exc, lastLog>>

stop_recording ==
    \/ StopIgnored
    \/ StopBegin
    \/ StopWaited
    \/ StopModelError
    \/ StopReturn
    \/ StopModelReady
    \/ StopTranscribeRaisesEarly
    \/ StopDetect
    \/ StopNoDetect
    \/ StopRealPass
    \/ StopClipboard
    \/ StopInject
    \/ StopNoInject
    \/ StopCopied
    \/ StopNoSpeech
    \/ StopExcept
    \/ StopFinally

\* ------------------------------------------------------------ stop

\* handle_sigint (SIGINT, SIGTERM) or the tray's Quit: stop() sets running
\* to False and calls os._exit(0) (lines 600-608, 386-389, 712-717)
stop ==
    /\ Alive
    /\ running' = FALSE
    /\ ProcessEnds("exited")
    /\ exc' = None
    /\ notified' = <<>>
    /\ UNCHANGED <<cfgvars, recording, record_process, temp_file, model,
                   model_loaded, model_error, notification_id, tray, sessions,
                   procs, files, lastLog>>

Next ==
    \/ LoadModelOk \/ LoadModelFail \/ LoadSetEvent \/ LoadTrayReady
    \/ KeyEvent \/ ArecordExit
    \/ Select \/ Read \/ ReadBlocks \/ ReadFails \/ ReadDone
    \/ start_recording
    \/ stop_recording
    \/ stop

Spec == Init /\ [][Next]_vars

\* ------------------------------------------------------------ import and window lookup

\* everything but the module globals and the lookup call
runvars == <<objvars, tray, loadpc, loopvars, envvars, sessvars, notified,
             lastLog>>

\* The module is being imported with the settings of config.ini, line 226 is
\* not reached yet; KWin will report some window class.  The Dictation
\* object is as __init__ will leave it and takes no step here.
InitImport ==
    /\ \E s \in PasteStrings :
          CONFIG = [auto_type |-> TRUE, notifications |-> TRUE,
                    language |-> <<"auto">>, paste_keys |-> s]
    /\ IS_WAYLAND = TRUE
    /\ PASTE_YDOTOOL_ARGS = NoArgs
    /\ window_class \in {NoClass} \cup WindowClassStrings
    /\ window_keys = NoArgs
    /\ stamps = FALSE
    /\ errlog = FALSE
    /\ InitObject

\* PASTE_YDOTOOL_ARGS = parse_paste_keys(CONFIG["paste_keys"]) (line 226)
ImportPasteKeys ==
    /\ PASTE_YDOTOOL_ARGS = NoArgs
    /\ PASTE_YDOTOOL_ARGS' = parse_paste_keys(CONFIG.paste_keys)
    /\ UNCHANGED <<CONFIG, IS_WAYLAND, window_class, window_keys, stamps,
                   errlog, fd_to_device, blocked, runvars>>

\* a call get_paste_keys_for_window(window_class) returns (lines 260-268)
CallGetPasteKeys ==
    /\ PASTE_YDOTOOL_ARGS # NoArgs
    /\ window_keys = NoArgs
    /\ window_keys' = get_paste_keys_for_window(window_class)
    /\ UNCHANGED <<CONFIG, IS_WAYLAND, PASTE_YDOTOOL_ARGS, window_class,
                   stamps, errlog, fd_to_device, blocked, runvars>>

NextImport == ImportPasteKeys \/ CallGetPasteKeys

SpecImport == InitImport /\ [][NextImport]_vars

\* ------------------------------------------------------------ arrival order

\* the settings under which the arrival order is followed (Wayland,
\* notifications off): auto-type off with full-auto language, auto-type on
\* with an allowed list
OrderSetups ==
    {<<[auto_type |-> FALSE, notifications |-> FALSE, language |-> <<"auto">>,
        paste_keys |-> DefaultPasteKeys], TRUE>>,
     <<[auto_type |-> TRUE, notifications |-> FALSE,
        language |-> <<"en", ",", "it">>, paste_keys |-> DefaultPasteKeys],
       TRUE>>}

\* as Init, with the timestamps of the events kept
InitOrder ==
    /\ \E su \in OrderSetups : CONFIG = su[1] /\ IS_WAYLAND = su[2]
    /\ PASTE_YDOTOOL_ARGS = parse_paste_keys(CONFIG.paste_keys)
    /\ window_class = NoClass
    /\ window_keys = NoArgs
    /\ stamps = TRUE
    /\ errlog = FALSE
    /\ InitObject

SpecOrder == InitOrder /\ [][Next]_vars

\* ------------------------------------------------------------ read errors

\* as Init under the settings of OrderSetups, with the reads that raised
\* BlockingIOError remembered
InitRead ==
    /\ \E su \in OrderSetups : CONFIG = su[1] /\ IS_WAYLAND = su[2]
    /\ PASTE_YDOTOOL_ARGS = parse_paste_keys(CONFIG.paste_keys)
    /\ window_class = NoClass
    /\ window_keys = NoArgs
    /\ stamps = FALSE
    /\ errlog = TRUE
    /\ InitObject

SpecRead == InitRead /\ [][Next]_vars

\* ------------------------------------------------------------ vocabulary of the claims

Titles(calls) == {calls[i].title : i \in DOMAIN calls}

\* ------------------------------------------------------------ claims

\* C1: whenever the orchestrator is Idle between two handler calls, every
\* temp audio file start_recording created has been deleted, whatever the
\* outcome of the session (also: press while the model loads, the load
\* fails, release).
C1_TempFileDeleted == Idle => files = {}

\* C2: at any time at most one capture subprocess is live and at most one
\* temp file exists, for every sequence of presses and releases.
C2_OneCapture == Cardinality(LiveProcs) <= 1 /\ Cardinality(files) <= 1

\* C2 witness: a second press arrived without a release in between and was
\* handled; there is still one subprocess and one temp file.
C2_Witness ==
    /\ lastLog = "already recording"
    /\ recording
    /\ Cardinality(LiveProcs) = 1
    /\ Cardinality(files) = 1

\* what a handler call can touch apart from the position in the event stream
Effects ==
    <<recording, record_process, temp_file, sessions, procs, files, tray,
      notified, notification_id, passes, clipboard, injected, text, exc>>

\* C3: a start_recording call while Recording and a stop_recording call
\* while Idle return at once and change nothing: the flag, the subprocess
\* handle, the temp file, the subprocesses, the notifications sent and the
\* transcription passes stay as they are.
C3_DuplicateEdgesAreNoOps ==
    [][(\/ HotkeyPressed /\ recording /\ start_recording
        \/ HotkeyReleased /\ ~recording /\ stop_recording)
       => (mainpc' = "dispatch" /\ UNCHANGED Effects)]_vars

\* C3 witness: a release was handled while Idle, after a session had run.
C3_Witness ==
    /\ lastLog = "not recording"
    /\ Idle
    /\ sessions = 1

\* C4: once the model load has recorded an error, start_recording returns
\* at once on every press: Idle stays, no temp file, no subprocess, no
\* notification.
C4_PressIgnoredAfterLoadError ==
    [][(HotkeyPressed /\ model_error # None /\ start_recording)
       => (mainpc' = "dispatch" /\ UNCHANGED Effects)]_vars

\* C5: no transcription pass of a session starts or has run while a
\* capture subprocess is live: stop_recording has signalled the subprocess
\* and waited for its exit before it reaches the first model.transcribe.
C5_NoTranscribeWhileCapturing ==
    (mainpc \in {"stop_transcribe", "stop_real_pass"} \/ passes # <<>>)
        => LiveProcs = {}

\* C5 witness: a pass has run in a session whose capture subprocess exited.
C5_Witness ==
    /\ passes # <<>>
    /\ procs # <<>>
    /\ LiveProcs = {}

\* C6: stop_recording leaves the wait of line 519 only once the load has
\* settled, and then either goes on to transcribe with the loaded model or
\* reports the load error; model.transcribe is called only on a loaded
\* model.
C6_TranscribeAfterLoad ==
    [][/\ (mainpc = "stop_model_wait" /\ mainpc' \notin {mainpc, "exited"})
          => /\ model_loaded
             /\ \/ mainpc' = "stop_transcribe" /\ model # None
                \/ /\ Len(notified') = Len(notified) + 1
                   /\ notified'[Len(notified')].title = "Error"
                   /\ notified'[Len(notified')].body = ModelFailedMessage
       /\ Len(passes') > Len(passes) => model_loaded /\ model # None]_vars

\* C7: when arecord cannot be spawned, the session is aborted and nothing
\* else: the recording flag is false again and the polling loop runs on.
C7_SpawnFailureReturnsToIdle == exc = "Popen" => Idle

\* C8: a process that was shut down while Recording has terminated its
\* capture subprocess before it exited, and has run no transcription.
C8_ShutdownTerminatesCapture ==
    (mainpc = "exited" /\ recording)
        => \A p \in DOMAIN procs : procs[p] # "running"

\* C9: a session that left Recording through a release comes back to Idle;
\* stated for finite runs: the main thread is never stopped by an exception
\* inside stop_recording (where the recording flag is already cleared), so
\* the polling loop is there to take the next press.
C9_SessionReturnsToIdle ==
    (mainpc = "crashed" /\ exc # "device.read") => recording

\* C10: a session whose transcription text is empty writes nothing to the
\* clipboard, injects no key and no text, and calls notify with the
\* "No speech detected" status.
C10_NoSpeechNoDelivery ==
    text = <<>>
        => /\ clipboard = <<>>
           /\ injected = <<>>
           /\ mainpc # "stop_deliver" => "No speech detected" \in Titles(notified)

\* C10 witness: the try block ended normally with an empty text.
C10_Witness ==
    /\ text = <<>>
    /\ mainpc = "stop_finally"
    /\ exc = None
    /\ passes # <<>>

\* C11: on Wayland with auto-type, the key sequence handed to ydotool is the
\* one resolved from the class of the application that has the focus in
\* that session: the terminal sequence for a terminal emulator, the
\* configured default otherwise.
C11_PasteKeysFollowFocus ==
    \A i \in DOMAIN injected :
        injected[i].tool = "ydotool"
            => injected[i].arg = get_paste_keys_for_window(injected[i].focus)

\* two strings that are equal up to the case of their letters
SameIgnoringCase(a, b) ==
    /\ Len(a) = Len(b)
    /\ \A i \in DOMAIN a :
          \/ a[i] = b[i]
          \/ \E j \in DOMAIN UpperCase :
                {a[i], b[i]} = {UpperCase[j], LowerCase[j]}

\* C12: get_paste_keys_for_window returns the terminal paste sequence when
\* the window class equals, case-insensitively, one of the identifiers of
\* TERMINAL_APPS; for every other class, for the empty class and for None
\* it returns the configured default sequence.
C12_TerminalKeysForTerminalClass ==
    window_keys # NoArgs
        => window_keys =
              IF /\ window_class # NoClass
                 /\ \E t \in TERMINAL_APPS : SameIgnoringCase(window_class, t)
              THEN PASTE_TERMINAL_ARGS
              ELSE PASTE_YDOTOOL_ARGS

\* C12 witness: a class written in another case than the identifier of the
\* list got the terminal sequence, which differs from the default.
C12_Witness ==
    /\ window_keys = PASTE_TERMINAL_ARGS
    /\ window_class \notin TERMINAL_APPS
    /\ PASTE_YDOTOOL_ARGS # PASTE_TERMINAL_ARGS

\* the languages of the allowed list
AllowedSet == {ALLOWED_LANGUAGES[k] : k \in DOMAIN ALLOWED_LANGUAGES}

\* C13: in restricted-auto mode (an allowed list of two or more languages)
\* the language passed to the real pass (beam width 5) is the detected
\* language when the allowed list has it and the first entry of the list
\* otherwise; it is always a member of the list.
C13_RealPassLanguageAllowed ==
    Len(ALLOWED_LANGUAGES) >= 2
        => \A i \in DOMAIN passes :
              passes[i].beam_size = 5
                  => /\ passes[i].language \in AllowedSet
                     /\ passes[i].language =
                           IF detect_info \in AllowedSet
                           THEN detect_info
                           ELSE ALLOWED_LANGUAGES[1]

\* C13 witness: the detection reported a language outside the list "en,it"
\* and the real pass ran with the first entry.
C13_Witness ==
    /\ ALLOWED_LANGUAGES = <<"en", "it">>
    /\ detect_info = "fr"
    /\ Len(passes) = 2
    /\ passes[2].language = "en"

\* C14: once the readiness event is set, exactly one of "model loaded" and
\* "error recorded" holds, the event stays set, and neither self.model nor
\* self.model_error changes any more, whatever the polling loop does.
C14_ReadinessTerminalOnce ==
    [][model_loaded
          => /\ (model # None) # (model_error # None)
             /\ model_loaded'
             /\ model' = model
             /\ model_error' = model_error]_vars

\* C14 witness: the load failed and set the event while a recording that a
\* press had started during the load was going on.
C14_Witness ==
    /\ model_loaded
    /\ model_error # None
    /\ model = None
    /\ recording

\* C15: when a notify call fails in both notifiers (gdbus and notify-send
\* raise), the handler that made the call still completes and the polling
\* loop keeps running: the main thread is never stopped by that exception.
C15_NotifyFailureDoesNotAbort ==
    exc \in {"notify@497", "notify@523", "notify@try", "notify@592"}
        => mainpc # "crashed"

\* a step that enters start_recording or stop_recording for the next event
Enters ==
    \/ HotkeyPressed /\ start_recording
    \/ HotkeyReleased /\ stop_recording

\* no pending event is taken up while stop_recording runs
NoneHandledWhileProcessing ==
    Processing
        => \/ Len(arrived') >= Len(arrived)
           \/ mainpc' \in {"crashed", "exited"}

\* C16: a hotkey event that arrives while stop_recording runs is not
\* handled before that call has returned, no handler is entered while
\* stop_recording runs, and the events that arrived meanwhile are handled in
\* arrival order: none of them is handled while an older one is pending.
C16_SerialInArrivalOrder ==
    [][/\ NoneHandledWhileProcessing
       /\ Enters
            => /\ ~Processing
               /\ LET i == FirstOf(arrived, device)
                  IN  arrived[i].busy
                         => \A j \in 1..(i - 1) : ~arrived[j].busy]_vars

\* C16 as amended: events are handled one at a time, never while
\* stop_recording runs, and those of one device in their arrival order:
\* the event a handler is entered for is the oldest pending event of the
\* device being read.
C16_SerialInDeviceOrder ==
    [][/\ NoneHandledWhileProcessing
       /\ Enters
            => /\ ~Processing
               /\ arrived[FirstOf(arrived, device)].kind = Head(batch)]_vars

\* C16 witness: stop_recording has returned and two events of different
\* kind that arrived from one device while it ran have been read, oldest
\* first.
C16_Witness ==
    /\ mainpc = "dispatch"
    /\ Len(arrived) = 2
    /\ arrived[1].busy /\ arrived[2].busy
    /\ arrived[1].kind # arrived[2].kind
    /\ batch = <<arrived[1].kind, arrived[2].kind>>

\* C17: in a session with non-empty text nothing is injected before the
\* text has been written to the clipboard, and only with auto-type enabled;
\* with auto-type disabled the session gets past delivery with the
\* clipboard written and nothing injected.
C17_ClipboardBeforeInjection ==
    /\ injected # <<>>
          => /\ CONFIG.auto_type
             /\ text # <<>>
             /\ Len(clipboard) = 1 /\ clipboard[1].input = text
             /\ Len(injected) = 1
    /\ (mainpc = "stop_notify" /\ ~CONFIG.auto_type)
          => /\ Len(clipboard) = 1 /\ clipboard[1].input = text
             /\ injected = <<>>

\* C17 witness: a session with auto-type enabled has written the clipboard,
\* pasted, and ended its try block normally.
C17_Witness ==
    /\ mainpc = "stop_finally"
    /\ exc = None
    /\ Len(clipboard) = 1
    /\ Len(injected) = 1

\* the language mode of the setting: an allowed list (restricted-auto) has
\* a separator, full-auto is the word "auto", anything else is one forced
\* language
RestrictedAuto == \E i \in DOMAIN CONFIG.language : CONFIG.language[i] = ","

\* the passes a session of the configured mode runs, the language of the
\* real pass of restricted-auto mode left open
ExpectedPass(i) ==
    IF RestrictedAuto
    THEN IF i = 1
         THEN [beam_size |-> 1, vad_filter |-> TRUE, language |-> None]
         ELSE [beam_size |-> 5, vad_filter |-> TRUE,
               language |-> passes[i].language]
    ELSE [beam_size |-> 5, vad_filter |-> TRUE,
          language |-> IF CONFIG.language = <<"auto">> THEN None
                       ELSE Lower(CONFIG.language[1])]

\* C18: the passes of a session follow the language mode.  Forced and
\* full-auto mode run one pass, the real pass with beam width 5 and the
\* forced language or none; restricted-auto mode runs two, a detection pass
\* with beam width 1 and then the real pass with beam width 5; every pass
\* filters by voice activity.  At any time the passes run so far are the
\* first of these, and once the text is there they have all run.
C18_PassesFollowLanguageMode ==
    /\ Len(passes) <= (IF RestrictedAuto THEN 2 ELSE 1)
    /\ \A i \in DOMAIN passes : passes[i] = ExpectedPass(i)
    /\ text # NoText => Len(passes) = (IF RestrictedAuto THEN 2 ELSE 1)

\* C18 witness: a session in restricted-auto mode has its text after a
\* detection pass and a real pass.
C18_Witness ==
    /\ RestrictedAuto
    /\ text # NoText
    /\ Len(passes) = 2
    /\ passes[1].beam_size = 1
    /\ passes[2].beam_size = 5

\* the keycode each part of PasteParts stands for, written out by hand:
\* names count whatever their case and the blanks around them; the empty
\* part and "f1" are no paste keys
ExpectedCode ==
       (<<"c", "t", "r", "l">> :> 29)
    @@ (<<"C", "t", "r", "l">> :> 29)
    @@ (<<"s", "h", "i", "f", "t">> :> 42)
    @@ (<<" ", "v">> :> 47)
    @@ (<<"V">> :> 47)
    @@ (<<"s", "u", "p", "e", "r">> :> 125)
    @@ (<<"b">> :> 31)
    @@ (<<"s">> :> 31)
    @@ (<<"a", "l", "t", " ">> :> 56)

RECURSIVE ExpectedCodes(_)
\* the codes of the recognised parts of ps, in the configured order
ExpectedCodes(ps) ==
    IF ps = <<>> THEN <<>>
    ELSE (IF Head(ps) \in DOMAIN ExpectedCode
          THEN <<ExpectedCode[Head(ps)]>>
          ELSE <<>>) \o ExpectedCodes(Tail(ps))

\* C19: for every paste_keys setting, parse_paste_keys returns 2n
\* arguments for the n recognised key names: first a press of each key in
\* the configured order, then a release of each in reverse order, so that
\* the i-th press and the i-th last release are of the same key;
\* unrecognised names are dropped, and when no name is recognised the
\* result is the Ctrl+V sequence (29, 47).  The names are the parts of the
\* setting: joined with "+" they give it back.
C19_PressThenReleaseReversed ==
    PASTE_YDOTOOL_ARGS # NoArgs
        => LET ps == SplitPlus(CONFIG.paste_keys)
               args == PASTE_YDOTOOL_ARGS
               codes == IF ExpectedCodes(ps) = <<>> THEN <<29, 47>>
                        ELSE ExpectedCodes(ps)
               n == Len(codes)
           IN  /\ JoinPlus(ps) = CONFIG.paste_keys
               /\ \A k \in DOMAIN ps : ps[k] \in PasteParts
               /\ Len(args) = 2 * n
               /\ \A i \in 1..n :
                     /\ args[i] = <<codes[i], 1>>
                     /\ args[2 * n + 1 - i] = <<codes[i], 0>>

\* C19 witness: the setting "Ctrl+ v" (other case, a blank) was parsed
\* into press 29, press 47, release 47, release 29.
C19_Witness ==
    /\ CONFIG.paste_keys = <<"C", "t", "r", "l", "+", " ", "v">>
    /\ PASTE_YDOTOOL_ARGS = <<<<29, 1>>, <<47, 1>>, <<47, 0>>, <<29, 0>>>>

\* C20: a notification replaces the previous one: when the backend has
\* returned an id for an earlier notification (self.notification_id is
\* not 0), the next call of notify passes that id as its replaces-id.
C20_NotificationReplacesPrevious ==
    [][(Len(notified') = Len(notified) + 1 /\ notification_id # 0)
          => notified'[Len(notified')].replaces = notification_id]_vars

\* a read of the device being polled raises (line 635)
ReadRaises == ReadBlocks \/ ReadFails

\* what the claim says of the step in which a read raises: the loop goes on
\* with the next device of this cycle, the device table is as before, no
\* buffered event is lost and no handler has acted
OnlySkipsDevice ==
    /\ mainpc' = "read"
    /\ running'
    /\ ready' = Tail(ready)
    /\ fd_to_device' = fd_to_device
    /\ devq' = devq
    /\ UNCHANGED Effects

\* every device that holds a hotkey event is polled in the cycle that starts
AllReadablePolled ==
    Select => \A d \in DeviceIds :
                 devq[d] # <<>> => \E i \in DOMAIN ready' : ready'[i] = d

\* C21: a read error on one input device during a poll cycle only skips that
\* device for that cycle: the polling loop keeps running, the device stays
\* in the monitored set, and the events of it and of the other devices are
\* polled in the later cycles.
C21_ReadErrorSkipsDevice ==
    [][/\ ReadRaises => OnlySkipsDevice
       /\ AllReadablePolled]_vars

\* C21 as amended: the same for a read that raises BlockingIOError (the
\* device has nothing to read).
C21_BlockedReadSkipsDevice ==
    [][/\ ReadBlocks => OnlySkipsDevice
       /\ AllReadablePolled]_vars

\* C21 witness: in a cycle after the one in which the read of the first
\* keyboard raised BlockingIOError, a press of that keyboard is being handled
\* (a first session is over) and the second keyboard is still to be read.
C21_Witness ==
    /\ blocked = 1
    /\ mainpc = "dispatch"
    /\ batch = <<"press">>
    /\ ready = <<2>>
    /\ sessions = 1
    /\ ~recording

\* the calls of notify with the 'Error' status among calls
Errors(calls) == {i \in DOMAIN calls : calls[i].title = "Error"}

\* the main thread leaves the position pc of stop_recording
Leaves(pc) == mainpc = pc /\ mainpc' \notin {pc, "exited"}

\* the call of notify this step makes
SentNow == notified'[Len(notified')]

\* one call of notify this step, with the 'Error' status and a message of at
\* most 50 characters
OneBoundedError ==
    /\ Len(notified') = Len(notified) + 1
    /\ SentNow.title = "Error"
    /\ Len(SentNow.body) <= 50

C23_TrayMatchesState ==
    /\ (InLoop /\ recording) => tray = "recording"
    /\ (Processing /\ mainpc # "stop_wait") => tray = "processing"
    /\ (Idle /\ sessions > 0)
          => /\ tray # "processing"
             /\ model # None => tray = "ready"

LetterNames == {<<LowerCase[i]>> : i \in DOMAIN LowerCase}

\* C25: the keycode table maps distinct letter names to distinct keycodes:
\* a paste_keys setting and the setting that differs from it in one letter
\* name (as "ctrl+b" and "ctrl+s") never give the same ydotool arguments.
C25_DistinctLettersDistinctKeys ==
    PASTE_YDOTOOL_ARGS # NoArgs
        => LET ps == SplitPlus(CONFIG.paste_keys)
           IN  \A k \in DOMAIN ps : \A l \in LetterNames :
                  (lower(Strip(ps[k])) \in LetterNames \ {l})
                      => parse_paste_keys(JoinPlus([ps EXCEPT ![k] = l]))
                            # PASTE_YDOTOOL_ARGS
====
